---- MODULE Spec2Model ----
(***************************************************************************)
(* Model of bcbiovm/docker/mounts.py: the configuration path remapping     *)
(* pipeline (update_config: abs_file_paths, _get_directories, mount        *)
(* allocation, _remap_directories) and prepare_system.                     *)
(*                                                                         *)
(* Python strings are sequences of one-character strings, so that          *)
(* os.path.split, os.path.join, os.path.normpath and the lexical order     *)
(* used by sorted() are computed character by character.                   *)
(* Python values are tagged records: Str, List, Dict, Int, None.           *)
(***************************************************************************)
EXTENDS Integers, Sequences, FiniteSets, TLC

\* ------------------------------------------------------------------------
\* Python str: comparison, str(int)
\* ------------------------------------------------------------------------

\* The characters used by the model, in code point order.
CharOrder ==
    << ".", "/", "0", "1", "2", "3", "4", "5", "6", "7", "8", "9", ":",
       "O", "_",
       "a", "b", "c", "d", "e", "f", "g", "h", "i", "j", "k", "l", "m",
       "n", "o", "p", "q", "r", "s", "t", "u", "v", "w", "x", "y", "z" >>

Ord(c) == CHOOSE i \in 1..Len(CharOrder) : CharOrder[i] = c

Min(a, b) == IF a <= b THEN a ELSE b

\* str.__lt__: the first differing character decides, a proper prefix is less.
StrLess(a, b) ==
    LET n == Min(Len(a), Len(b))
        diff == {i \in 1..n : a[i] # b[i]}
    IN  IF diff = {}
        THEN Len(a) < Len(b)
        ELSE LET i == CHOOSE j \in diff : \A k \in diff : j <= k
             IN  Ord(a[i]) < Ord(b[i])

Digits == << "0", "1", "2", "3", "4", "5", "6", "7", "8", "9" >>

RECURSIVE StrInt(_)
\* str(i) for a non-negative int.
StrInt(i) ==
    IF i < 10 THEN << Digits[i + 1] >>
    ELSE StrInt(i \div 10) \o << Digits[(i % 10) + 1] >>

Range(s) == {s[i] : i \in 1..Len(s)}

Reverse(s) == [i \in 1..Len(s) |-> s[Len(s) + 1 - i]]

\* ------------------------------------------------------------------------
\* posixpath
\* ------------------------------------------------------------------------

IsAbs(p) == Len(p) > 0 /\ p[1] = "/"

\* p.rfind('/') + 1, as a count of characters in the head.
RFindSlash(p) ==
    LET at == {i \in 1..Len(p) : p[i] = "/"}
    IN  IF at = {} THEN 0 ELSE CHOOSE i \in at : \A j \in at : j <= i

RECURSIVE RStripSlash(_)
RStripSlash(p) ==
    IF Len(p) > 0 /\ p[Len(p)] = "/" THEN RStripSlash(SubSeq(p, 1, Len(p) - 1))
    ELSE p

AllSlashes(p) == \A i \in 1..Len(p) : p[i] = "/"

\* os.path.split(p) = (head, tail)
Split(p) ==
    LET i == RFindSlash(p)
        head == SubSeq(p, 1, i)
        tail == SubSeq(p, i + 1, Len(p))
    IN  << IF head # << >> /\ ~AllSlashes(head) THEN RStripSlash(head) ELSE head,
           tail >>

Dirname(p) == Split(p)[1]

Basename(p) == Split(p)[2]

\* os.path.join(a, b)
Join(a, b) ==
    IF IsAbs(b) THEN b
    ELSE IF a = << >> \/ a[Len(a)] = "/" THEN a \o b
    ELSE a \o << "/" >> \o b

RECURSIVE SplitSlash(_)
\* p.split('/')
SplitSlash(p) ==
    IF \A i \in 1..Len(p) : p[i] # "/" THEN << p >>
    ELSE LET i == CHOOSE j \in 1..Len(p) :
                      p[j] = "/" /\ \A k \in 1..(j - 1) : p[k] # "/"
         IN  << SubSeq(p, 1, i - 1) >> \o SplitSlash(SubSeq(p, i + 1, Len(p)))

RECURSIVE JoinSlash(_)
\* '/'.join(comps)
JoinSlash(comps) ==
    IF comps = << >> THEN << >>
    ELSE IF Len(comps) = 1 THEN comps[1]
    ELSE comps[1] \o << "/" >> \o JoinSlash(Tail(comps))

DotDot == << ".", "." >>

RECURSIVE NormComps(_, _, _)
\* The component loop of os.path.normpath.
NormComps(comps, new_comps, initial_slashes) ==
    IF comps = << >> THEN new_comps
    ELSE LET comp == Head(comps)
             n == Len(new_comps)
         IN  IF comp = << >> \/ comp = << "." >>
             THEN NormComps(Tail(comps), new_comps, initial_slashes)
             ELSE IF comp # DotDot
                     \/ (initial_slashes = 0 /\ n = 0)
                     \/ (n > 0 /\ new_comps[n] = DotDot)
             THEN NormComps(Tail(comps), Append(new_comps, comp), initial_slashes)
             ELSE IF n > 0
             THEN NormComps(Tail(comps), SubSeq(new_comps, 1, n - 1), initial_slashes)
             ELSE NormComps(Tail(comps), new_comps, initial_slashes)

\* os.path.normpath(p)
Normpath(p) ==
    IF p = << >> THEN << "." >>
    ELSE LET initial_slashes ==
                 IF ~IsAbs(p) THEN 0
                 ELSE IF Len(p) >= 2 /\ p[2] = "/" /\ ~(Len(p) >= 3 /\ p[3] = "/")
                 THEN 2 ELSE 1
             body == JoinSlash(NormComps(SplitSlash(p), << >>, initial_slashes))
             path == [i \in 1..initial_slashes |-> "/"] \o body
         IN  IF path = << >> THEN << "." >> ELSE path

\* ------------------------------------------------------------------------
\* Python values
\* ------------------------------------------------------------------------

Str(s) == [t |-> "str", s |-> s]

List(xs) == [t |-> "list", xs |-> xs]

Dict(m) == [t |-> "dict", m |-> m]

IntV(n) == [t |-> "int", n |-> n]

NoneV == [t |-> "none"]

\* A raised exception, carried in place of the value that was being computed.
Raise(e) == [t |-> "raise", e |-> e]

IsStr(v) == v.t = "str"

IsList(v) == v.t = "list"

IsDict(v) == v.t = "dict"

\* Python truth value of v.
Truthy(v) ==
    CASE v.t = "str" -> v.s # << >>
      [] v.t = "list" -> v.xs # << >>
      [] v.t = "dict" -> DOMAIN v.m # {}
      [] v.t = "int" -> v.n # 0
      [] OTHER -> FALSE

\* Every dictionary key of the model; a dict is iterated in this order or in
\* the reverse of it.
KeyOrder ==
    << "algorithm", "aligner", "batch", "description", "files", "lane",
       "metadata", "variant_regions", "variantcaller" >>

\* xs.items(): the keys of m in iteration order.
Items(m, rev) ==
    LET ks == SelectSeq(KeyOrder, LAMBDA k : k \in DOMAIN m)
    IN  IF rev THEN Reverse(ks) ELSE ks

\* ------------------------------------------------------------------------
\* Host filesystem
\* ------------------------------------------------------------------------

\* os.getcwd()
Cwd == << "/", "d" >>

\* Symbolic links of the host: link path |-> canonical target.
Links == (<< "/", "d", "/", "l" >> :> << "/", "e", "/", "b" >>)

\* os.path.realpath(p): made absolute against the working directory,
\* normalised, symbolic links followed.
Realpath(p) ==
    LET q == Normpath(Join(Cwd, p))
    IN  IF q \in DOMAIN Links THEN Links[q] ELSE q

\* os.path.exists(p) on a host whose existing canonical paths are fs.
Exists(fs, p) == p # << >> /\ Realpath(p) \in fs

\* ------------------------------------------------------------------------
\* mounts.py
\* ------------------------------------------------------------------------

RECURSIVE _normalize_path(_, _, _)
_normalize_path(fs, x, base_dirs) ==
    IF base_dirs = << >> THEN NoneV
    ELSE LET base_dir == Head(base_dirs)
         IN  IF Exists(fs, Join(base_dir, x))
             THEN Str(Normpath(Realpath(Join(base_dir, x))))
             ELSE _normalize_path(fs, x, Tail(base_dirs))

\* base_dirs is a sequence of directories, << >> standing for None as well as
\* for [] (the code treats the two alike); ignore is a set of keys.
abs_file_paths(fs, xs, base_dirs, ignore) ==
    IF ~IsDict(xs) THEN xs
    ELSE LET bd == (IF base_dirs # << >> THEN base_dirs ELSE << >>)
                   \o << Cwd >>
             out(k) ==
                 LET v == xs.m[k]
                 IN  IF k \notin ignore /\ Truthy(v) /\ IsStr(v)
                        /\ Truthy(_normalize_path(fs, v.s, bd))
                     THEN _normalize_path(fs, v.s, bd)
                     ELSE IF k \notin ignore /\ Truthy(v) /\ IsList(v)
                        /\ Truthy(_normalize_path(fs, v.xs[1].s, bd))
                     THEN List([i \in 1..Len(v.xs) |-> _normalize_path(fs, v.xs[i].s, bd)])
                     ELSE v
         IN  Dict([k \in DOMAIN xs.m |-> out(k)])

\* os.path.dirname applied to a Python value: a non-string raises.
DirnameV(x) == IF IsStr(x) THEN Str(Dirname(x.s)) ELSE Raise("TypeError")

RECURSIVE Concat(_)
Concat(ss) == IF ss = << >> THEN << >> ELSE Head(ss) \o Concat(Tail(ss))

RECURSIVE _get_directories_firstOnly(_, _, _)
\* _get_directories collecting the directory of the first element of a list only.
_get_directories_firstOnly(fs, xs, rev) ==
    IF ~IsDict(xs) THEN << >>
    ELSE LET ks == Items(xs.m, rev)
             one(k) ==
                 LET v == xs.m[k]
                 IN  IF IsDict(v) THEN _get_directories_firstOnly(fs, v, rev)
                     ELSE IF Truthy(v) /\ IsStr(v) /\ Exists(fs, v.s) /\ IsAbs(v.s)
                     THEN << Str(Dirname(v.s)) >>
                     ELSE IF Truthy(v) /\ IsList(v) /\ Exists(fs, v.xs[1].s)
                     THEN << DirnameV(v.xs[1]) >>
                     ELSE << >>
         IN  Concat([i \in 1..Len(ks) |-> one(ks[i])])

RECURSIVE _get_directories(_, _, _)
\* The list of directories, in discovery order; an element Raise(e) stands
\* for the exception raised while that element was computed.
_get_directories(fs, xs, rev) ==
    IF ~IsDict(xs) THEN << >>
    ELSE LET ks == Items(xs.m, rev)
             one(k) ==
                 LET v == xs.m[k]
                 IN  IF IsDict(v) THEN _get_directories(fs, v, rev)
                     ELSE IF Truthy(v) /\ IsStr(v) /\ Exists(fs, v.s) /\ IsAbs(v.s)
                     THEN << Str(Dirname(v.s)) >>
                     ELSE IF Truthy(v) /\ IsList(v) /\ Exists(fs, v.xs[1].s)
                     THEN [i \in 1..Len(v.xs) |-> DirnameV(v.xs[i])]
                     ELSE << >>
         IN  Concat([i \in 1..Len(ks) |-> one(ks[i])])

\* RemapOne joining the mount point with the whole path instead of its basename.
RemapOne_wholePath(x, mounts) ==
    IF ~IsStr(x) THEN Raise("TypeError")
    ELSE LET dirname == Split(x.s)[1]
         IN  IF dirname \in DOMAIN mounts
             THEN Str(Join(mounts[dirname], x.s))
             ELSE Raise("KeyError")

\* str(os.path.join(mounts[dirname], basename)) for one path value x.
RemapOne(x, mounts) ==
    IF ~IsStr(x) THEN Raise("TypeError")
    ELSE LET dirname == Split(x.s)[1]
             basename == Split(x.s)[2]
         IN  IF dirname \in DOMAIN mounts
             THEN Str(Join(mounts[dirname], basename))
             ELSE Raise("KeyError")

RECURSIVE _remap_directories_noExists(_, _, _)
\* _remap_directories without the os.path.exists test on scalars.
_remap_directories_noExists(fs, xs, mounts) ==
    IF ~IsDict(xs) THEN xs
    ELSE LET out(k) ==
                 LET v == xs.m[k]
                 IN  IF IsDict(v) THEN _remap_directories_noExists(fs, v, mounts)
                     ELSE IF Truthy(v) /\ IsStr(v) /\ IsAbs(v.s)
                     THEN RemapOne(v, mounts)
                     ELSE IF Truthy(v) /\ IsList(v) /\ Exists(fs, v.xs[1].s)
                     THEN List([i \in 1..Len(v.xs) |-> RemapOne(v.xs[i], mounts)])
                     ELSE v
         IN  Dict([k \in DOMAIN xs.m |-> out(k)])

RECURSIVE _remap_directories_firstOnly(_, _, _)
\* _remap_directories remapping only the first element of a list.
_remap_directories_firstOnly(fs, xs, mounts) ==
    IF ~IsDict(xs) THEN xs
    ELSE LET out(k) ==
                 LET v == xs.m[k]
                 IN  IF IsDict(v) THEN _remap_directories_firstOnly(fs, v, mounts)
                     ELSE IF Truthy(v) /\ IsStr(v) /\ Exists(fs, v.s) /\ IsAbs(v.s)
                     THEN RemapOne(v, mounts)
                     ELSE IF Truthy(v) /\ IsList(v) /\ Exists(fs, v.xs[1].s)
                     THEN List(<< RemapOne(v.xs[1], mounts) >>)
                     ELSE v
         IN  Dict([k \in DOMAIN xs.m |-> out(k)])

RECURSIVE _remap_directories(_, _, _)
_remap_directories(fs, xs, mounts) ==
    IF ~IsDict(xs) THEN xs
    ELSE LET out(k) ==
                 LET v == xs.m[k]
                 IN  IF IsDict(v) THEN _remap_directories(fs, v, mounts)
                     ELSE IF Truthy(v) /\ IsStr(v) /\ Exists(fs, v.s) /\ IsAbs(v.s)
                     THEN RemapOne(v, mounts)
                     ELSE IF Truthy(v) /\ IsList(v) /\ Exists(fs, v.xs[1].s)
                     THEN List([i \in 1..Len(v.xs) |-> RemapOne(v.xs[i], mounts)])
                     ELSE v
         IN  Dict([k \in DOMAIN xs.m |-> out(k)])

RECURSIVE Raised(_)
\* The exceptions carried anywhere inside a value.
Raised(v) ==
    CASE v.t = "raise" -> {v.e}
      [] v.t = "list" -> UNION {Raised(v.xs[i]) : i \in 1..Len(v.xs)}
      [] v.t = "dict" -> UNION {Raised(v.m[k]) : k \in DOMAIN v.m}
      [] OTHER -> {}

RECURSIVE SortedSet(_)
\* sorted(S) for a set S of str.
SortedSet(S) ==
    IF S = {} THEN << >>
    ELSE LET least == CHOOSE d \in S : \A e \in S \ {d} : StrLess(d, e)
         IN  << least >> \o SortedSet(S \ {least})

RECURSIVE Dedup(_)
\* The first occurrences of a sequence, in order.
Dedup(ss) ==
    IF ss = << >> THEN << >>
    ELSE LET rest == Dedup(SubSeq(ss, 1, Len(ss) - 1))
             x == ss[Len(ss)]
         IN  IF x \in Range(rest) THEN rest ELSE Append(rest, x)

\* The directories deduplicated but left in discovery order.
SortedDirs_unsorted(directories) ==
    Dedup([i \in 1..Len(directories) |-> directories[i].s])

\* sorted(set(directories))
SortedDirs(directories) == SortedSet({directories[i].s : i \in 1..Len(directories)})

\* for i, d in enumerate(ds): mounts[d] = os.path.join(input_dir, str(i))
\* (a later assignment to the same key overwrites an earlier one).
Allocate(ds, input_dir) ==
    [d \in Range(ds) |->
        LET i == CHOOSE j \in 1..Len(ds) :
                     ds[j] = d /\ \A k \in (j + 1)..Len(ds) : ds[k] # d
        IN  Join(input_dir, StrInt(i - 1))]

\* ["%s:%s" % (k, v) for k, v in mounts.items()], keys in insertion order.
MountSpecs(ds, mounts) == [i \in 1..Len(ds) |-> ds[i] \o << ":" >> \o mounts[ds[i]]]

TopIgnore == {"description", "analysis", "resources", "genome_build", "lane"}

AlgorithmIgnore == {"variantcaller", "realign", "recalibrate", "phasing", "svcaller"}

\* base_dirs=[args.fcdir] if args.fcdir else None
BaseDirs(fcdir) == IF fcdir # << >> THEN << fcdir >> ELSE << >>

\* The two abs_file_paths calls of one loop iteration of update_config.
AbsSample(fs, d, fcdir) ==
    LET d1 == abs_file_paths(fs, d, BaseDirs(fcdir), TopIgnore)
    IN  Dict([d1.m EXCEPT !["algorithm"] =
                 abs_file_paths(fs, d1.m["algorithm"], BaseDirs(fcdir), AlgorithmIgnore)])

\* The directory names of prepare_system, in the order of its loop.
SystemDirs ==
    << << "g", "e", "n", "o", "m", "e", "s" >>,
       << "l", "i", "f", "t", "O", "v", "e", "r" >>,
       << "g", "e", "m", "i", "n", "i", "_", "d", "a", "t", "a" >>,
       << "g", "a", "l", "a", "x", "y" >> >>

RECURSIVE Ancestors(_)
\* p and every directory above it.
Ancestors(p) == IF Dirname(p) = p THEN {p} ELSE {p} \cup Ancestors(Dirname(p))

\* os.makedirs(p): p is created together with its missing parents.
Makedirs(fs, p) == fs \cup Ancestors(p)

\* cur_d of prepare_system for the name d.
CurD(datadir, d) == Normpath(Realpath(Join(datadir, d)))

RECURSIVE PrepareFs_inverted(_, _, _)
\* PrepareFs with the existence test inverted: nothing missing is created.
PrepareFs_inverted(fs, datadir, names) ==
    IF names = << >> THEN fs
    ELSE LET cur_d == CurD(datadir, Head(names))
         IN  PrepareFs_inverted(IF Exists(fs, cur_d) THEN Makedirs(fs, cur_d) ELSE fs,
                                datadir, Tail(names))

RECURSIVE PrepareFs(_, _, _)
\* The host filesystem after the loop of prepare_system over names.
PrepareFs(fs, datadir, names) ==
    IF names = << >> THEN fs
    ELSE LET cur_d == CurD(datadir, Head(names))
         IN  PrepareFs(IF ~Exists(fs, cur_d) THEN Makedirs(fs, cur_d) ELSE fs,
                       datadir, Tail(names))

\* The list prepare_system returns.
PrepareMounts(datadir, docker_biodata_dir) ==
    [i \in 1..Len(SystemDirs) |->
        CurD(datadir, SystemDirs[i]) \o << ":" >> \o docker_biodata_dir
            \o << "/" >> \o SystemDirs[i]]

\* ------------------------------------------------------------------------
\* Inputs
\* ------------------------------------------------------------------------

\* The most samples in config["details"].
MaxSamples == 2

\* The most successive calls of prepare_system.
MaxCalls == 3

P_a == << "a" >>
P_b == << "b" >>
P_l == << "l" >>
P_zz == << "z", "z" >>
P_da == << "/", "d", "/", "a" >>
P_dc == << "/", "d", "/", "c" >>
P_eb == << "/", "e", "/", "b" >>
P_e == << "/", "e" >>
P_m == << "/", "m" >>
P_n == << "/", "n" >>
P_g == << "/", "g" >>
P_x == << "/", "x" >>

\* The paths that exist on the host before any call: directories /, /d (the
\* working directory), /e, /g, /d/g, /m, /m/1 and files /d/a, /d/c, /e/b,
\* /m/1/b; /d/l is a symbolic link to /e/b (see Links).
HostFs ==
    { << "/" >>, Cwd, P_e, P_g, Cwd \o P_g, P_m, P_m \o << "/", "1" >>,
      P_da, P_dc, P_eb, P_m \o << "/", "1", "/", "b" >> }

\* Top-level fields of a sample, "algorithm" excepted.
TopChoices ==
    { [files |-> Str(P_a), description |-> Str(<< "s" >>)],
      [files |-> List(<< Str(P_da), Str(P_dc) >>), description |-> Str(P_da)],
      [files |-> List(<< Str(P_b), Str(P_zz) >>), lane |-> IntV(1)],
      [files |-> Str(P_eb), metadata |-> Dict([batch |-> Str(P_dc)])] }

\* The "algorithm" block of a sample.
AlgChoices ==
    { [variant_regions |-> Str(P_l), variantcaller |-> Str(<< "g" >>)],
      [aligner |-> Str(<< "b", "w", "a" >>), variantcaller |-> List(<< Str(P_a) >>)],
      [aligner |-> Str(<< >>), variantcaller |-> List(<< Str(P_da), Str(P_zz) >>)] }

Samples ==
    { Dict([k \in DOMAIN top \cup {"algorithm"} |->
               IF k = "algorithm" THEN Dict(alg) ELSE top[k]]) :
        top \in TopChoices, alg \in AlgChoices }

\* config["details"]
Details == UNION {[1..n -> Samples] : n \in 1..MaxSamples}

\* args.fcdir: unset, or /e.
FcDirs == {<< >>, P_e}

\* input_dir, the root of the allocated mount points.
InputDirs == {P_m, P_n}

\* ------------------------------------------------------------------------
\* State
\* ------------------------------------------------------------------------

VARIABLES
    fs,           \* the existing paths of the host filesystem
    fcdir,        \* args.fcdir
    input_dir,    \* input_dir of update_config
    rev,          \* whether dicts iterate in reverse key order
    call,         \* 1 for the first update_config call, 2 for the call on its result
    pc,           \* "loop", "alloc", "remap", "done" or "raised"
    cfg_in,       \* config["details"] as passed to the current call
    absdetails,   \* absdetails of update_config
    directories,  \* directories of update_config
    mounts,       \* mounts of update_config
    out,          \* config["details"] as returned
    specs,        \* the mount specs returned
    err,          \* the exception raised, "" if none
    first,        \* what the first call computed, kept for the second
    datadir,      \* datadir of prepare_system
    docker_biodata_dir,
    fs0,          \* the host filesystem before the first prepare_system call
    rets          \* the lists returned by the prepare_system calls so far

vars ==
    << fs, fcdir, input_dir, rev, call, pc, cfg_in, absdetails, directories,
       mounts, out, specs, err, first, datadir, docker_biodata_dir, fs0, rets >>

prepVars == << datadir, docker_biodata_dir, fs0, rets >>

argVars == << fcdir, input_dir, rev >>

NoMounts == [d \in {} |-> << >>]

NoFirst == [absdetails |-> << >>, mounts |-> NoMounts, out |-> << >>]

Init ==
    /\ fs = HostFs
    /\ fcdir \in FcDirs
    /\ input_dir \in InputDirs
    /\ rev \in BOOLEAN
    /\ call = 1
    /\ pc = "loop"
    /\ cfg_in \in Details
    /\ absdetails = << >>
    /\ directories = << >>
    /\ mounts = NoMounts
    /\ out = << >>
    /\ specs = << >>
    /\ err = ""
    /\ first = NoFirst
    /\ datadir = << >>
    /\ docker_biodata_dir = << >>
    /\ fs0 = HostFs
    /\ rets = << >>

\* LoopStep assigning the directories of the sample instead of extending.
LoopStep_assign ==
    /\ pc = "loop"
    /\ Len(absdetails) < Len(cfg_in)
    /\ LET d == AbsSample(fs, cfg_in[Len(absdetails) + 1], fcdir)
           ds == _get_directories(fs, d, rev)
           raised == UNION {Raised(ds[i]) : i \in 1..Len(ds)}
       IN  IF raised # {}
           THEN /\ pc' = "raised"
                /\ err' = CHOOSE e \in raised : TRUE
                /\ UNCHANGED << absdetails, directories >>
           ELSE /\ absdetails' = Append(absdetails, d)
                /\ directories' = ds
                /\ UNCHANGED << pc, err >>
    /\ UNCHANGED << fs, argVars, call, cfg_in, mounts, out, specs, first, prepVars >>

\* One iteration of the loop over config["details"].
LoopStep ==
    /\ pc = "loop"
    /\ Len(absdetails) < Len(cfg_in)
    /\ LET d == AbsSample(fs, cfg_in[Len(absdetails) + 1], fcdir)
           ds == _get_directories(fs, d, rev)
           raised == UNION {Raised(ds[i]) : i \in 1..Len(ds)}
       IN  IF raised # {}
           THEN /\ pc' = "raised"
                /\ err' = CHOOSE e \in raised : TRUE
                /\ UNCHANGED << absdetails, directories >>
           ELSE /\ absdetails' = Append(absdetails, d)
                /\ directories' = directories \o ds
                /\ UNCHANGED << pc, err >>
    /\ UNCHANGED << fs, argVars, call, cfg_in, mounts, out, specs, first, prepVars >>

\* The loop that fills mounts.
AllocStep ==
    /\ pc = "loop"
    /\ Len(absdetails) = Len(cfg_in)
    /\ mounts' = Allocate(SortedDirs(directories), input_dir)
    /\ pc' = "remap"
    /\ UNCHANGED << fs, argVars, call, cfg_in, absdetails, directories, out,
                    specs, err, first, prepVars >>

\* The remap of every sample, and the return.
RemapStep ==
    /\ pc = "remap"
    /\ LET details == [i \in 1..Len(absdetails) |->
                          _remap_directories(fs, absdetails[i], mounts)]
           raised == UNION {Raised(details[i]) : i \in 1..Len(details)}
       IN  IF raised # {}
           THEN /\ pc' = "raised"
                /\ err' = CHOOSE e \in raised : TRUE
                /\ UNCHANGED << out, specs >>
           ELSE /\ pc' = "done"
                /\ out' = details
                /\ specs' = MountSpecs(SortedDirs(directories), mounts)
                /\ UNCHANGED err
    /\ UNCHANGED << fs, argVars, call, cfg_in, absdetails, directories, mounts,
                    first, prepVars >>

\* update_config is called again, on the config the first call returned.
SecondCall ==
    /\ pc = "done"
    /\ call = 1
    /\ call' = 2
    /\ first' = [absdetails |-> absdetails, mounts |-> mounts, out |-> out]
    /\ cfg_in' = out
    /\ pc' = "loop"
    /\ absdetails' = << >>
    /\ directories' = << >>
    /\ mounts' = NoMounts
    /\ out' = << >>
    /\ specs' = << >>
    /\ UNCHANGED << fs, argVars, err, prepVars >>

Next == LoopStep \/ AllocStep \/ RemapStep \/ SecondCall

Spec == Init /\ [][Next]_vars

\* The initial content of the data root: any of the four directories.
InitPrep ==
    /\ datadir \in {P_g, << "g" >>}
    /\ docker_biodata_dir \in {P_x, P_m}
    /\ \E present \in SUBSET Range(SystemDirs) :
           fs = HostFs \cup {CurD(datadir, d) : d \in present}
    /\ fs0 = fs
    /\ rets = << >>
    /\ fcdir = << >>
    /\ input_dir = P_m
    /\ rev = FALSE
    /\ call = 1
    /\ pc = "done"
    /\ cfg_in = << >>
    /\ absdetails = << >>
    /\ directories = << >>
    /\ mounts = NoMounts
    /\ out = << >>
    /\ specs = << >>
    /\ err = ""
    /\ first = NoFirst

prepare_system ==
    /\ Len(rets) < MaxCalls
    /\ fs' = PrepareFs(fs, datadir, SystemDirs)
    /\ rets' = Append(rets, PrepareMounts(datadir, docker_biodata_dir))
    /\ UNCHANGED << argVars, call, pc, cfg_in, absdetails, directories, mounts,
                    out, specs, err, first, datadir, docker_biodata_dir, fs0 >>

NextPrep == prepare_system

SpecPrep == InitPrep /\ [][NextPrep]_vars

\* ------------------------------------------------------------------------
\* Reading trees
\* ------------------------------------------------------------------------

RECURSIVE LeafPaths(_)
\* The key paths from a value to its leaves (the values that are not dicts).
LeafPaths(v) ==
    IF IsDict(v)
    THEN UNION {{<< k >> \o p : p \in LeafPaths(v.m[k])} : k \in DOMAIN v.m}
    ELSE {<< >>}

RECURSIVE Get(_, _)
Get(v, p) == IF p = << >> THEN v ELSE Get(v.m[Head(p)], Tail(p))

\* A scalar that is an absolute existing path.
PathScalar(v) == IsStr(v) /\ IsAbs(v.s) /\ Exists(fs, v.s)

\* A list whose first element is an absolute existing path.
PathList(v) == IsList(v) /\ v.xs # << >> /\ PathScalar(v.xs[1])

\* mounts[dirOf(x)] + "/" + baseName(x)
Under(mp, x) == mp[Dirname(x)] \o << "/" >> \o Basename(x)

\* The path values of sample i of the absolutized tree, each paired with the
\* value at the same place of the returned tree.
PathValues(i) ==
    UNION { (LET v == Get(absdetails[i], p)
                 w == Get(out[i], p)
             IN  IF PathScalar(v) THEN {<< v, w >>}
                 ELSE IF PathList(v) /\ IsList(w) /\ Len(w.xs) = Len(v.xs)
                 THEN {<< v.xs[j], w.xs[j] >> : j \in 1..Len(v.xs)}
                 ELSE {}) : p \in LeafPaths(absdetails[i]) }

AllPathValues == UNION {PathValues(i) : i \in 1..Len(absdetails)}

Returned == pc = "done"

Allocated == pc \in {"remap", "done"}

\* ------------------------------------------------------------------------
\* Properties
\* ------------------------------------------------------------------------

\* C1: when update_config returns, every scalar leaf of the absolutized tree
\* that is an absolute existing path, and every element of a list leaf whose
\* first element is one, stands in the returned tree as
\* mounts[dirname] + "/" + basename; two path values of one host directory,
\* in the same sample or not, are therefore under one mount point.
C1_RemappedUnderMounts ==
    Returned =>
        /\ \A i \in 1..Len(absdetails) : \A p \in LeafPaths(absdetails[i]) :
               LET v == Get(absdetails[i], p)
                   w == Get(out[i], p)
               IN  /\ PathScalar(v) =>
                          /\ Dirname(v.s) \in DOMAIN mounts
                          /\ w = Str(Under(mounts, v.s))
                   /\ PathList(v) =>
                          /\ IsList(w)
                          /\ Len(w.xs) = Len(v.xs)
                          /\ \A j \in 1..Len(v.xs) :
                                 /\ Dirname(v.xs[j].s) \in DOMAIN mounts
                                 /\ w.xs[j] = Str(Under(mounts, v.xs[j].s))
        /\ \A a \in AllPathValues : \A b \in AllPathValues :
               Dirname(a[1].s) = Dirname(b[1].s) => Dirname(a[2].s) = Dirname(b[2].s)

\* Two different files of one host directory, in two samples, returned under
\* one mount point; and a remapped list.
C1_Witness ==
    /\ Returned
    /\ Len(out) = 2
    /\ \E a \in PathValues(1) : \E b \in PathValues(2) :
           /\ a[1] # b[1]
           /\ Dirname(a[1].s) = Dirname(b[1].s)
           /\ a[2] = Str(Under(mounts, a[1].s))
           /\ b[2] = Str(Under(mounts, b[1].s))
           /\ Dirname(a[2].s) = Dirname(b[2].s)
    /\ \E p \in LeafPaths(absdetails[1]) : PathList(Get(absdetails[1], p))

\* C2: in the tree update_config returns, the value under an ignored key of a
\* sample, and under an ignored key of its algorithm block, is the value of
\* the input.
C2_IgnoredKeysUntouched ==
    Returned =>
        \A i \in 1..Len(cfg_in) :
            /\ \A k \in DOMAIN cfg_in[i].m \cap TopIgnore :
                   out[i].m[k] = cfg_in[i].m[k]
            /\ \A k \in DOMAIN cfg_in[i].m["algorithm"].m \cap AlgorithmIgnore :
                   out[i].m["algorithm"].m[k] = cfg_in[i].m["algorithm"].m[k]

\* The directories _get_directories emits over the absolutized samples.
Collected ==
    UNION { {ds[j].s : j \in 1..Len(ds)} :
            ds \in {_get_directories(fs, absdetails[i], rev) : i \in 1..Len(absdetails)} }

\* C4: the keys of mounts are exactly the directories _get_directories emitted
\* over the absolutized samples of the call.
C4_MountKeysAreCollected == Allocated => DOMAIN mounts = Collected

C4_Witness ==
    /\ Returned
    /\ Cardinality(DOMAIN mounts) >= 2
    /\ Len(directories) > Cardinality(DOMAIN mounts)

\* The zero-based position of d in the lexical sort of the set S.
Rank(S, d) == Cardinality({e \in S : StrLess(e, d)})

\* C5: each directory is mounted at input_dir/<i>, i its zero-based position
\* in the lexical sort of the set of collected directories: the indices are
\* 0..n-1, the mount points are distinct, and the mapping depends on the set
\* alone (not on discovery order or duplicates).
C5_MountsBySortedRank ==
    Allocated =>
        LET S == {directories[i].s : i \in 1..Len(directories)}
        IN  /\ DOMAIN mounts = S
            /\ \A d \in S : mounts[d] = input_dir \o << "/" >> \o StrInt(Rank(S, d))
            /\ {mounts[d] : d \in S}
                   = {input_dir \o << "/" >> \o StrInt(n) : n \in 0..(Cardinality(S) - 1)}
            /\ \A d \in S : \A e \in S : d # e => mounts[d] # mounts[e]

\* Several directories, discovered with duplicates and out of lexical order.
C5_Witness ==
    /\ Returned
    /\ Cardinality(DOMAIN mounts) >= 2
    /\ Len(directories) > Cardinality(DOMAIN mounts)
    /\ \E i \in 1..Len(directories) : \E j \in 1..Len(directories) :
           i < j /\ StrLess(directories[j].s, directories[i].s)

\* C8: every directory of the mount mapping is an absolute path.
C8_MountKeysAbsolute == Allocated => \A d \in DOMAIN mounts : IsAbs(d)

\* The directories the remap pass looks up in mounts.
LookedUpIn(i) ==
    UNION { (LET v == Get(absdetails[i], p)
             IN  IF Truthy(v) /\ IsStr(v) /\ Exists(fs, v.s) /\ IsAbs(v.s)
                 THEN {Dirname(v.s)}
                 ELSE IF Truthy(v) /\ IsList(v) /\ Exists(fs, v.xs[1].s)
                 THEN {Dirname(v.xs[j].s) : j \in 1..Len(v.xs)}
                 ELSE {}) :
            p \in LeafPaths(absdetails[i]) }

LookedUp == UNION {LookedUpIn(i) : i \in 1..Len(absdetails)}

\* C10: every directory the remap pass looks up in the mount mapping is one of
\* its keys, and the remap pass never fails with a lookup miss.
C10_NoLookupMiss ==
    /\ err # "KeyError"
    /\ (Allocated => LookedUp \subseteq DOMAIN mounts)

\* A call that returned after looking up the directory of a list element
\* that is not the first.
C10_Witness ==
    /\ Returned
    /\ \E i \in 1..Len(absdetails) : \E p \in LeafPaths(absdetails[i]) :
           LET v == Get(absdetails[i], p)
           IN  /\ IsList(v)
               /\ Len(v.xs) >= 2
               /\ Exists(fs, v.xs[1].s)
               /\ Dirname(v.xs[2].s) # Dirname(v.xs[1].s)
               /\ Dirname(v.xs[2].s) \in DOMAIN mounts

\* ------------------------------------------------------------------------
\* _remap_directories on its own
\* ------------------------------------------------------------------------

\* One sample as _remap_directories may receive it: as given, or absolutized.
RemapInputs ==
    Samples \cup {AbsSample(HostFs, d, f) : d \in Samples, f \in FcDirs}

\* Mount mappings over some of the directories "", /d and /e.
MountMaps ==
    UNION {[D -> {P_m \o << "/", "0" >>, P_m \o << "/", "1" >>}] :
              D \in SUBSET {<< >>, Cwd, P_e}}

InitRemap ==
    /\ fs = HostFs
    /\ fcdir = << >>
    /\ input_dir = P_m
    /\ rev = FALSE
    /\ call = 1
    /\ pc = "remap"
    /\ cfg_in = << >>
    /\ \E d \in RemapInputs : absdetails = << d >>
    /\ directories = << >>
    /\ mounts \in MountMaps
    /\ out = << >>
    /\ specs = << >>
    /\ err = ""
    /\ first = NoFirst
    /\ datadir = << >>
    /\ docker_biodata_dir = << >>
    /\ fs0 = HostFs
    /\ rets = << >>

\* The remap pass alone, on any sample and any mount mapping.
RemapCall ==
    /\ pc = "remap"
    /\ LET details == [i \in 1..Len(absdetails) |->
                          _remap_directories(fs, absdetails[i], mounts)]
           raised == UNION {Raised(details[i]) : i \in 1..Len(details)}
       IN  IF raised # {}
           THEN /\ pc' = "raised"
                /\ err' = CHOOSE e \in raised : TRUE
                /\ UNCHANGED out
           ELSE /\ pc' = "done"
                /\ out' = details
                /\ UNCHANGED err
    /\ UNCHANGED << fs, argVars, call, cfg_in, absdetails, directories, mounts,
                    specs, first, prepVars >>

NextRemap == RemapCall

SpecRemap == InitRemap /\ [][NextRemap]_vars

RECURSIVE SameShape(_, _)
\* The same keys at every level, the same depth, the same list lengths.
SameShape(a, b) ==
    IF IsDict(a) \/ IsDict(b)
    THEN /\ IsDict(a) /\ IsDict(b)
         /\ DOMAIN a.m = DOMAIN b.m
         /\ \A k \in DOMAIN a.m : SameShape(a.m[k], b.m[k])
    ELSE IF IsList(a) \/ IsList(b)
    THEN IsList(a) /\ IsList(b) /\ Len(a.xs) = Len(b.xs)
    ELSE TRUE

\* The leaves _remap_directories rewrites: an absolute existing scalar, or a
\* list whose first element exists.
RemapScalar(v) == IsStr(v) /\ v.s # << >> /\ Exists(fs, v.s) /\ IsAbs(v.s)

RemapList(v) == IsList(v) /\ v.xs # << >> /\ IsStr(v.xs[1]) /\ Exists(fs, v.xs[1].s)

ShapeKept ==
    \A i \in 1..Len(absdetails) :
        /\ SameShape(absdetails[i], out[i])
        /\ \A p \in LeafPaths(absdetails[i]) :
               LET v == Get(absdetails[i], p)
               IN  ~RemapScalar(v) /\ ~RemapList(v) => Get(out[i], p) = v

\* C6 as claimed: _remap_directories keeps the keys, the depth and the list
\* lengths, returns every leaf that is not path-classified unchanged, and
\* inside a path-classified list alters no element that is not itself a path.
C6_NonPathElementsKept ==
    Returned =>
        /\ ShapeKept
        /\ \A i \in 1..Len(absdetails) : \A p \in LeafPaths(absdetails[i]) :
               LET v == Get(absdetails[i], p)
               IN  RemapList(v) =>
                       \A j \in 1..Len(v.xs) :
                           ~Exists(fs, v.xs[j].s) => Get(out[i], p).xs[j] = v.xs[j]

\* C6 amended: _remap_directories keeps the keys, the depth and the list
\* lengths and returns every leaf that is not path-classified unchanged;
\* inside a path-classified list every element, a path or not, is replaced
\* by mounts[dirname] + "/" + basename.
C6_ShapeAndNonPathLeaves ==
    Returned =>
        /\ ShapeKept
        /\ \A i \in 1..Len(absdetails) : \A p \in LeafPaths(absdetails[i]) :
               LET v == Get(absdetails[i], p)
               IN  RemapList(v) =>
                       \A j \in 1..Len(v.xs) :
                           /\ Dirname(v.xs[j].s) \in DOMAIN mounts
                           /\ Get(out[i], p).xs[j] = Str(Under(mounts, v.xs[j].s))

\* A returned remap of a sample that has a nested dict, a leaf that is not a
\* path, and a path-classified list with an element that does not exist.
C6_Witness ==
    /\ Returned
    /\ \E p \in LeafPaths(absdetails[1]) : Len(p) = 2 /\ Head(p) # "algorithm"
    /\ \E p \in LeafPaths(absdetails[1]) :
           LET v == Get(absdetails[1], p)
           IN  /\ RemapList(v)
               /\ \E j \in 1..Len(v.xs) :
                      /\ ~Exists(fs, v.xs[j].s)
                      /\ Get(out[1], p).xs[j] # v.xs[j]
    /\ \E p \in LeafPaths(absdetails[1]) :
           LET v == Get(absdetails[1], p)
           IN  IsStr(v) /\ ~RemapScalar(v) /\ Get(out[1], p) = v

\* ------------------------------------------------------------------------
\* The second call (C3)
\* ------------------------------------------------------------------------

\* The places (sample, key path) of the fields the first call remapped.
RemappedPlaces ==
    UNION { {<< i, p >> : p \in {q \in LeafPaths(first.absdetails[i]) :
                                   LET v == Get(first.absdetails[i], q)
                                   IN  RemapScalar(v) \/ RemapList(v)}} :
            i \in 1..Len(first.absdetails) }

\* x names an existing path of the host, as it is or relative to args.fcdir
\* or to the working directory.
OnHost(x) ==
    \E base \in Range(BaseDirs(fcdir) \o << Cwd >>) : Exists(fs, Join(base, x))

\* No value the first call wrote names an existing path of the host.
TargetsAbsent ==
    \A ip \in RemappedPlaces :
        LET w == Get(first.out[ip[1]], ip[2])
        IN  IF IsList(w) THEN \A j \in 1..Len(w.xs) : ~OnHost(w.xs[j].s)
            ELSE ~OnHost(w.s)

RemappedUnchanged ==
    \A ip \in RemappedPlaces : Get(out[ip[1]], ip[2]) = Get(first.out[ip[1]], ip[2])

\* C3 as claimed: the second call, on the config the first call returned,
\* leaves every field the first call remapped unchanged.
C3_SecondCallKeepsRemapped == (call = 2 /\ Returned) => RemappedUnchanged

\* C3 amended: provided no value written by the first call names an existing
\* path of the host (as it is, or relative to args.fcdir or the working
\* directory), the second call returns and leaves every field the first call
\* remapped unchanged.
C3_SecondCallKeepsAbsentTargets ==
    (call = 2 /\ TargetsAbsent) =>
        /\ pc # "raised"
        /\ Returned => RemappedUnchanged

\* A second call that returned, after a first call that remapped a scalar and
\* a list into two mount points, none of its values existing on the host.
C3_Witness ==
    /\ call = 2
    /\ Returned
    /\ TargetsAbsent
    /\ Cardinality(DOMAIN first.mounts) >= 2
    /\ \E ip \in RemappedPlaces : IsList(Get(out[ip[1]], ip[2]))
    /\ \E ip \in RemappedPlaces :
           /\ IsStr(Get(out[ip[1]], ip[2]))
           /\ Get(out[ip[1]], ip[2]) # Get(first.absdetails[ip[1]], ip[2])

\* ------------------------------------------------------------------------
\* Unresolvable values (C7)
\* ------------------------------------------------------------------------

\* abs_file_paths left in place what _normalize_path could not resolve:
\* x is the dict passed, a the dict returned, over the keys not ignored.
UnresolvedKept(x, a, ignore) ==
    LET bd == BaseDirs(fcdir) \o << Cwd >>
    IN  \A k \in DOMAIN x.m \ ignore :
            LET v == x.m[k]
            IN  /\ (IsStr(v) /\ v.s # << >> /\ _normalize_path(fs, v.s, bd) = NoneV)
                       => a.m[k] = v
                /\ (IsList(v) /\ v.xs # << >> /\ _normalize_path(fs, v.xs[1].s, bd) # NoneV)
                       => \A j \in 1..Len(v.xs) :
                              _normalize_path(fs, v.xs[j].s, bd) = NoneV
                                  => a.m[k].xs[j] = v.xs[j]

\* The samples the loop of update_config has absolutized so far, the one it
\* raised on included.
Absolutized == 1..(Len(absdetails) + (IF pc = "raised" /\ Len(absdetails) < Len(cfg_in) THEN 1 ELSE 0))

\* C7: a value _normalize_path cannot resolve, a scalar or an element of a
\* list whose first element resolved, stays as it was in the absolutized
\* tree, and update_config does not fail on it.
C7_UnresolvedLeftInPlace ==
    /\ pc # "raised"
    /\ \A i \in Absolutized :
           LET a == AbsSample(fs, cfg_in[i], fcdir)
           IN  /\ UnresolvedKept(cfg_in[i], a, TopIgnore)
               /\ UnresolvedKept(cfg_in[i].m["algorithm"], a.m["algorithm"], AlgorithmIgnore)

\* ------------------------------------------------------------------------
\* prepare_system (C9)
\* ------------------------------------------------------------------------

\* datadir as an absolute path.
AbsDataDir == IF IsAbs(datadir) THEN datadir ELSE Cwd \o << "/" >> \o datadir

\* datadir/genomes, datadir/liftOver, datadir/gemini_data, datadir/galaxy
FourDirs == {AbsDataDir \o << "/" >> \o SystemDirs[i] : i \in 1..Len(SystemDirs)}

\* C9: after one or more calls of prepare_system the four directories exist,
\* nothing else was created, what existed is still there, and every call
\* returned the same four mount specs, host directory : docker_biodata_dir/name.
C9_PrepareSystemIdempotent ==
    Len(rets) >= 1 =>
        /\ \A d \in FourDirs : d \in fs
        /\ fs \ fs0 \subseteq FourDirs
        /\ fs0 \subseteq fs
        /\ \A n \in 1..Len(rets) :
               /\ rets[n] = rets[1]
               /\ Len(rets[n]) = 4
               /\ \A i \in 1..4 :
                      rets[n][i] = AbsDataDir \o << "/" >> \o SystemDirs[i] \o << ":" >>
                                       \o docker_biodata_dir \o << "/" >> \o SystemDirs[i]

\* Two calls on a data root that had some of the four directories, not all.
C9_Witness ==
    /\ Len(rets) >= 2
    /\ FourDirs \cap fs0 # {}
    /\ FourDirs \ fs0 # {}
    /\ FourDirs \subseteq fs

====
